---- MODULE Spec2Model ----
(***************************************************************************)
(* A model of the campaign-analysis pipeline of the Automated Insight      *)
(* Engine: src/src/process.py (clean_data, calculate_kpis,                 *)
(* get_summary_metrics), src/src/insights.py (generate_fallback_insights   *)
(* and the two provider-backed generators), src/src/ingest.py (load_csv)   *)
(* and the session handlers of src/app.py.                                 *)
(*                                                                         *)
(* Numbers.  The code computes with Python/numpy numbers.  The model keeps *)
(* every number as an exact fraction [n |-> numerator, d |-> denominator]  *)
(* in lowest terms with d > 0; [n |-> 0, d |-> 0] stands for NaN (the mean *)
(* of an empty column).  Binary rounding of floats is not modelled.        *)
(*                                                                         *)
(* Text.  A text is a sequence of characters (one string each), so that    *)
(* startswith / endswith / slicing / strip are computed as the code        *)
(* computes them.                                                          *)
(***************************************************************************)
EXTENDS Integers, Sequences, FiniteSets, TLC

VARIABLES
    df,         \* the table handed to calculate_kpis, or NoValue
    df_kpi,     \* the value calculate_kpis returned, or NoValue
    summary,    \* the summary mapping (returned by get_summary_metrics, or the
                \* argument of an insight generator)
    insights,   \* the value the last insight generator returned, or NoValue
    call,       \* what the last step called, and with which provider outcome
    df_kpi2,    \* the value of calculate_kpis applied to its own output, or NoValue
    df_raw,     \* the table read from the uploaded file (st.session_state.df_raw)
    df_clean,   \* the value clean_data returned (st.session_state.df_clean)
    charts,     \* st.session_state.charts
    uploaded_file,  \* the file in the upload widget, or NoValue
    origin,     \* for each derived session item, the file it was computed from
    heap,       \* the objects (tables, mappings) a sequence of core calls works on
    calls       \* the core calls made so far: argument before and after, result

vars == <<df, df_kpi, summary, insights, call, df_kpi2,
          df_raw, df_clean, charts, uploaded_file, origin, heap, calls>>

\* the variables only a sequence of core calls writes
callVars == <<heap, calls>>

\* the variables only the application session writes
sessionVars == <<df_raw, df_clean, charts, uploaded_file, origin>>

\* "nothing computed yet" (a local that is not bound yet)
NoValue == [none |-> TRUE]

\* Python's None as a returned value
PyNone == [py |-> "None"]

-----------------------------------------------------------------------------
(* Exact arithmetic *)

Abs(i) == IF i < 0 THEN -i ELSE i

RECURSIVE GCD(_, _)
GCD(a, b) == IF b = 0 THEN a ELSE GCD(b, a % b)

\* The fraction n/d in lowest terms; anything over 0 is NaN here, because the
\* code only divides by zero where the table is empty (0/0).
Norm(n, d) ==
    IF d = 0 THEN [n |-> 0, d |-> 0]
    ELSE LET g == GCD(Abs(n), Abs(d))
             s == IF d < 0 THEN -1 ELSE 1
         IN  [n |-> (s * n) \div g, d |-> (s * d) \div g]

Num(i) == [n |-> i, d |-> 1]
Frac(n, d) == Norm(n, d)
NaN == [n |-> 0, d |-> 0]
IsNaN(a) == a.d = 0

RatAdd(a, b) == IF IsNaN(a) \/ IsNaN(b) THEN NaN ELSE Norm(a.n * b.d + b.n * a.d, a.d * b.d)
RatMul(a, b) == IF IsNaN(a) \/ IsNaN(b) THEN NaN ELSE Norm(a.n * b.n, a.d * b.d)
RatDiv(a, b) == IF IsNaN(a) \/ IsNaN(b) THEN NaN ELSE Norm(a.n * b.d, a.d * b.n)
\* comparisons with NaN are False, as in Python
RatLt(a, b) == ~IsNaN(a) /\ ~IsNaN(b) /\ a.n * b.d < b.n * a.d
RatGt(a, b) == RatLt(b, a)
RatLe(a, b) == ~IsNaN(a) /\ ~IsNaN(b) /\ a.n * b.d <= b.n * a.d

\* f"{x:.2f}": the number of hundredths printed, rounding half to even
\* ("nan" for NaN).
Fmt2(a) ==
    IF IsNaN(a) THEN [nan |-> TRUE]
    ELSE LET x == a.n * 100
             q == x \div a.d
             r == x % a.d
         IN  [hundredths |-> IF 2 * r < a.d THEN q
                             ELSE IF 2 * r > a.d THEN q + 1
                             ELSE IF q % 2 = 0 THEN q ELSE q + 1]

-----------------------------------------------------------------------------
(* generate_fallback_insights: src/src/insights.py lines 134-201 *)

\* One generated sentence: its fixed text and the formatted values put in it.
Msg(text, args) == [text |-> text, args |-> args]

LowCtrIssue(ctr)  == Msg("Low CTR of {:.2f}% indicates poor ad relevance or targeting", <<Fmt2(ctr)>>)
CtrRecommendation == Msg("Improve ad copy and creative to increase engagement", <<>>)
GoodCtrInsight(ctr) == Msg("CTR of {:.2f}% shows good engagement", <<Fmt2(ctr)>>)

CpcInsight(cpc)   == Msg("Average CPC is ${:.2f}", <<Fmt2(cpc)>>)
HighCpcIssue(cpc) == Msg("High CPC of ${:.2f} may impact profitability", <<Fmt2(cpc)>>)
CpcRecommendation == Msg("Optimize bidding strategy to reduce cost per click", <<>>)

LowRoasIssue(roas) == Msg("ROAS of {:.2f} is below target threshold", <<Fmt2(roas)>>)
RoasRecommendation ==
    Msg("Focus on high-converting audiences and reduce spend on underperforming segments", <<>>)
StrongRoasInsight(roas) == Msg("Strong ROAS of {:.2f} indicates profitable campaigns", <<Fmt2(roas)>>)

LowCvrIssue(cvr)  == Msg("Conversion rate of {:.2f}% needs improvement", <<Fmt2(cvr)>>)
CvrRecommendation == Msg("Optimize landing pages and checkout flow", <<>>)
GoodCvrInsight(cvr) == Msg("Conversion rate of {:.2f}% is performing well", <<Fmt2(cvr)>>)

GenericRecommendations ==
    << Msg("Monitor performance daily and adjust bids based on ROI", <<>>),
       Msg("A/B test different ad creatives and messaging", <<>>),
       Msg("Analyze top-performing segments and allocate more budget there", <<>>),
       Msg("Set up automated rules for pause underperforming campaigns", <<>>) >>

DefaultInsight == Msg("Data analysis completed successfully", <<>>)
DefaultTrend   == Msg("More data points needed for trend analysis", <<>>)

\* the thresholds of the rules
CTR_THRESHOLD  == 1
CPC_THRESHOLD  == 2
ROAS_THRESHOLD == 2
CVR_THRESHOLD  == 2
MAX_RECOMMENDATIONS == 5

EmptyInsights ==
    [key_insights |-> <<>>, trends |-> <<>>, issues |-> <<>>, recommendations |-> <<>>]

Has(s, key) == key \in DOMAIN s

CtrRule_le(s, ins) ==
    IF ~Has(s, "overall_CTR") THEN ins
    ELSE LET ctr == s["overall_CTR"]
         IN  IF RatLe(ctr, Num(CTR_THRESHOLD))
             THEN [ins EXCEPT !.issues = Append(@, LowCtrIssue(ctr)),
                              !.recommendations = Append(@, CtrRecommendation)]
             ELSE [ins EXCEPT !.key_insights = Append(@, GoodCtrInsight(ctr))]

CtrRule(s, ins) ==
    IF ~Has(s, "overall_CTR") THEN ins
    ELSE LET ctr == s["overall_CTR"]
         IN  IF RatLt(ctr, Num(CTR_THRESHOLD))
             THEN [ins EXCEPT !.issues = Append(@, LowCtrIssue(ctr)),
                              !.recommendations = Append(@, CtrRecommendation)]
             ELSE [ins EXCEPT !.key_insights = Append(@, GoodCtrInsight(ctr))]

CpcRule_ge(s, ins) ==
    IF ~Has(s, "overall_CPC") THEN ins
    ELSE LET cpc == s["overall_CPC"]
             i1  == [ins EXCEPT !.key_insights = Append(@, CpcInsight(cpc))]
         IN  IF RatLe(Num(CPC_THRESHOLD), cpc)
             THEN [i1 EXCEPT !.issues = Append(@, HighCpcIssue(cpc)),
                             !.recommendations = Append(@, CpcRecommendation)]
             ELSE i1

CpcRule(s, ins) ==
    IF ~Has(s, "overall_CPC") THEN ins
    ELSE LET cpc == s["overall_CPC"]
             i1  == [ins EXCEPT !.key_insights = Append(@, CpcInsight(cpc))]
         IN  IF RatGt(cpc, Num(CPC_THRESHOLD))
             THEN [i1 EXCEPT !.issues = Append(@, HighCpcIssue(cpc)),
                             !.recommendations = Append(@, CpcRecommendation)]
             ELSE i1

RoasRule_le(s, ins) ==
    IF ~Has(s, "overall_ROAS") THEN ins
    ELSE LET roas == s["overall_ROAS"]
         IN  IF RatLe(roas, Num(ROAS_THRESHOLD))
             THEN [ins EXCEPT !.issues = Append(@, LowRoasIssue(roas)),
                              !.recommendations = Append(@, RoasRecommendation)]
             ELSE [ins EXCEPT !.key_insights = Append(@, StrongRoasInsight(roas))]

RoasRule(s, ins) ==
    IF ~Has(s, "overall_ROAS") THEN ins
    ELSE LET roas == s["overall_ROAS"]
         IN  IF RatLt(roas, Num(ROAS_THRESHOLD))
             THEN [ins EXCEPT !.issues = Append(@, LowRoasIssue(roas)),
                              !.recommendations = Append(@, RoasRecommendation)]
             ELSE [ins EXCEPT !.key_insights = Append(@, StrongRoasInsight(roas))]

\* the same reading a missing key as 0 (summary.get(key, 0))
CvrRule_get0(s, ins) ==
    LET cvr == IF Has(s, "overall_Conversion_Rate") THEN s["overall_Conversion_Rate"] ELSE Num(0)
    IN  IF RatLt(cvr, Num(CVR_THRESHOLD))
        THEN [ins EXCEPT !.issues = Append(@, LowCvrIssue(cvr)),
                         !.recommendations = Append(@, CvrRecommendation)]
        ELSE [ins EXCEPT !.key_insights = Append(@, GoodCvrInsight(cvr))]

CvrRule(s, ins) ==
    IF ~Has(s, "overall_Conversion_Rate") THEN ins
    ELSE LET cvr == s["overall_Conversion_Rate"]
         IN  IF RatLt(cvr, Num(CVR_THRESHOLD))
             THEN [ins EXCEPT !.issues = Append(@, LowCvrIssue(cvr)),
                              !.recommendations = Append(@, CvrRecommendation)]
             ELSE [ins EXCEPT !.key_insights = Append(@, GoodCvrInsight(cvr))]

\* insights['recommendations'].extend([...]); insights['recommendations'][:5]
Truncate_none(recs) == recs

\* the same with the cap at 4
Truncate_four(recs) == SubSeq(recs, 1, IF Len(recs) < 4 THEN Len(recs) ELSE 4)

Truncate(recs) == SubSeq(recs, 1, IF Len(recs) < MAX_RECOMMENDATIONS THEN Len(recs) ELSE MAX_RECOMMENDATIONS)

\* the same with the generic recommendations put first
GenericAndTruncate_genericFirst(ins) ==
    [ins EXCEPT !.recommendations = Truncate(GenericRecommendations \o @)]

GenericAndTruncate(ins) ==
    [ins EXCEPT !.recommendations = Truncate(@ \o GenericRecommendations)]

\* the same with the default key insight appended unconditionally
Defaults_always(ins) ==
    LET i1 == [ins EXCEPT !.key_insights = Append(@, DefaultInsight)]
    IN  IF i1.trends = <<>> THEN [i1 EXCEPT !.trends = Append(@, DefaultTrend)] ELSE i1

Defaults(ins) ==
    LET i1 == IF ins.key_insights = <<>>
              THEN [ins EXCEPT !.key_insights = Append(@, DefaultInsight)] ELSE ins
    IN  IF i1.trends = <<>> THEN [i1 EXCEPT !.trends = Append(@, DefaultTrend)] ELSE i1

generate_fallback_insights(s) ==
    Defaults(GenericAndTruncate(CvrRule(s, RoasRule(s, CpcRule(s, CtrRule(s, EmptyInsights))))))

-----------------------------------------------------------------------------
(* Texts, and the provider-backed generators: src/src/insights.py 9-131 *)

IsSpace(c) == c \in {" ", "\n", "\t"}

RECURSIVE LStrip(_)
LStrip(t) == IF t # <<>> /\ IsSpace(Head(t)) THEN LStrip(Tail(t)) ELSE t

RECURSIVE RStrip(_)
RStrip(t) ==
    IF t # <<>> /\ IsSpace(t[Len(t)]) THEN RStrip(SubSeq(t, 1, Len(t) - 1)) ELSE t

\* str.strip()
Strip(t) == RStrip(LStrip(t))

\* str.startswith(p), str.endswith(p)
StartsWith(t, p) == Len(t) >= Len(p) /\ SubSeq(t, 1, Len(p)) = p
EndsWith(t, p) == Len(t) >= Len(p) /\ SubSeq(t, Len(t) - Len(p) + 1, Len(t)) = p

\* text[k:], text[:-k]
DropFirst(t, k) == SubSeq(t, k + 1, Len(t))
DropLast(t, k) == SubSeq(t, 1, Len(t) - k)

\* the backtick character, written as a name
Backtick == "backtick"
Fence == <<Backtick, Backtick, Backtick>>
FenceJson == Fence \o <<"j", "s", "o", "n">>

(* A whole JSON document inside a text is one symbol of the text: what the
   generators do with a response depends on the fence around the document and
   on the value the document parses to, not on its characters.              *)
LlmInsights ==
    [key_insights    |-> <<Msg("llm insight", <<>>)>>,
     trends          |-> <<Msg("llm trend", <<>>)>>,
     issues          |-> <<>>,
     recommendations |-> <<Msg("llm recommendation", <<>>)>>]

\* what each document symbol parses to
JsonValue(doc) ==
    CASE doc = "{4 keys}" -> LlmInsights
      [] doc = "{2 keys}" -> [key_insights |-> <<Msg("llm insight", <<>>)>>, trends |-> <<>>]
      [] doc = "{}"       -> [py |-> "dict", len |-> 0]
      [] doc = "[...]"    -> [py |-> "list", items |-> <<Msg("llm insight", <<>>)>>]
      [] doc = "null"     -> PyNone

JsonDocs == {"{4 keys}", "{2 keys}", "{}", "[...]", "null"}

\* json.loads(text): the value, or an exception when the text is not one JSON
\* document with optional whitespace around it
JsonError == [raised |-> "JSONDecodeError"]
json_loads(t) ==
    LET u == Strip(t)
    IN  IF Len(u) = 1 /\ u[1] \in JsonDocs THEN JsonValue(u[1]) ELSE JsonError

Raised(v) == "raised" \in DOMAIN v

\* What the provider step does: an exception somewhere in the try block before
\* a response arrives, or a response carrying a text (OpenAI: possibly no
\* content at all).
ProviderFailures == {"import", "authentication", "prompt", "network"}

\* the same without the except clause: the exception reaches the caller
generate_insights_openai_noexcept(s, outcome) ==
    IF outcome.kind = "raise" THEN [raised |-> outcome.at]
    ELSE IF outcome.kind = "no_content" THEN [raised |-> "TypeError"]
    ELSE json_loads(outcome.text)

\* try: ... json.loads(response.choices[0].message.content) ... except: fallback
generate_insights_openai(s, outcome) ==
    IF outcome.kind = "raise" THEN generate_fallback_insights(s)
    ELSE IF outcome.kind = "no_content" THEN generate_fallback_insights(s)
    ELSE LET result == json_loads(outcome.text)
         IN  IF Raised(result) THEN generate_fallback_insights(s) ELSE result

\* lines 117-124: strip, drop a leading fence+json, a leading fence, a trailing fence
Unfence(text) ==
    LET t0 == Strip(text)
        t1 == IF StartsWith(t0, FenceJson) THEN DropFirst(t0, 7) ELSE t0
        t2 == IF StartsWith(t1, Fence) THEN DropFirst(t1, 3) ELSE t1
    IN  IF EndsWith(t2, Fence) THEN DropLast(t2, 3) ELSE t2

generate_insights_gemini(s, outcome) ==
    IF outcome.kind = "raise" THEN generate_fallback_insights(s)
    ELSE IF outcome.kind = "no_content" THEN generate_fallback_insights(s)
    ELSE LET result == json_loads(Strip(Unfence(outcome.text)))
         IN  IF Raised(result) THEN generate_fallback_insights(s) ELSE result

-----------------------------------------------------------------------------
(* Tables (pandas DataFrames): src/src/process.py *)

(* A table is [nrows, cols]: cols is the sequence of its columns in order,
   each [name, dtype, vals].  dtype "num" is a numeric column, whose cells
   are fractions; dtype "obj" is a text column, whose cells are strings.
   Column names need not be unique (DataFrame.rename can make two equal).   *)
Column(name, dtype, vals) == [name |-> name, dtype |-> dtype, vals |-> vals]

\* the characters of each column name the model uses
Chars(name) ==
    CASE name = "Impressions" -> <<"I", "m", "p", "r", "e", "s", "s", "i", "o", "n", "s">>
      [] name = "Clicks" -> <<"C", "l", "i", "c", "k", "s">>
      [] name = "Spend" -> <<"S", "p", "e", "n", "d">>
      [] name = "Conversions" -> <<"C", "o", "n", "v", "e", "r", "s", "i", "o", "n", "s">>
      [] name = "Revenue" -> <<"R", "e", "v", "e", "n", "u", "e">>
      [] name = "impressions" -> <<"i", "m", "p", "r", "e", "s", "s", "i", "o", "n", "s">>
      [] name = "clicks" -> <<"c", "l", "i", "c", "k", "s">>
      [] name = "spend" -> <<"s", "p", "e", "n", "d">>
      [] name = "conversions" -> <<"c", "o", "n", "v", "e", "r", "s", "i", "o", "n", "s">>
      [] name = "revenue" -> <<"r", "e", "v", "e", "n", "u", "e">>
      [] name = "Ad Cost" -> <<"A", "d", " ", "C", "o", "s", "t">>
      [] name = "Sales" -> <<"S", "a", "l", "e", "s">>
      [] name = "Click" -> <<"C", "l", "i", "c", "k">>
      [] name = "campaign" -> <<"c", "a", "m", "p", "a", "i", "g", "n">>
      [] name = "CTR" -> <<"C", "T", "R">>
      [] name = "CPC" -> <<"C", "P", "C">>
      [] name = "CPM" -> <<"C", "P", "M">>
      [] name = "Conversion_Rate" -> <<"C", "o", "n", "v", "e", "r", "s", "i", "o", "n", "_", "R", "a", "t", "e">>
      [] name = "ROAS" -> <<"R", "O", "A", "S">>
      [] name = "cost_per_click" -> <<"c", "o", "s", "t", "_", "p", "e", "r", "_", "c", "l", "i", "c", "k">>
      [] name = "Conversion Revenue" -> <<"C", "o", "n", "v", "e", "r", "s", "i", "o", "n", " ", "R", "e", "v", "e", "n", "u", "e">>
      [] name = "impression_cost" -> <<"i", "m", "p", "r", "e", "s", "s", "i", "o", "n", "_", "c", "o", "s", "t">>
      [] name = "click_ctr" -> <<"c", "l", "i", "c", "k", "_", "c", "t", "r">>
      [] name = "Click CTR Cost" -> <<"C", "l", "i", "c", "k", " ", "C", "T", "R", " ", "C", "o", "s", "t">>
      [] name = "Date" -> <<"D", "a", "t", "e">>
      [] name = "day" -> <<"d", "a", "y">>
      [] name = "Sales Date" -> <<"S", "a", "l", "e", "s", " ", "D", "a", "t", "e">>
      [] name = "Updated Cost" -> <<"U", "p", "d", "a", "t", "e", "d", " ", "C", "o", "s", "t">>
      [] name = "Cost" -> <<"C", "o", "s", "t">>

LowerOf ==
    ("A" :> "a") @@ ("B" :> "b") @@ ("C" :> "c") @@ ("D" :> "d") @@ ("E" :>
    "e") @@ ("F" :> "f") @@ ("G" :> "g") @@ ("H" :> "h") @@ ("I" :> "i") @@
    ("J" :> "j") @@ ("K" :> "k") @@ ("L" :> "l") @@ ("M" :> "m") @@ ("N" :>
    "n") @@ ("O" :> "o") @@ ("P" :> "p") @@ ("Q" :> "q") @@ ("R" :> "r") @@
    ("S" :> "s") @@ ("T" :> "t") @@ ("U" :> "u") @@ ("V" :> "v") @@ ("W" :>
    "w") @@ ("X" :> "x") @@ ("Y" :> "y") @@ ("Z" :> "z")
LowerChar(c) == IF c \in DOMAIN LowerOf THEN LowerOf[c] ELSE c

\* str.lower()
Lower(t) == [i \in DOMAIN t |-> LowerChar(t[i])]

\* p in t, for texts
Contains(t, p) == \E i \in 0..(Len(t) - Len(p)) : SubSeq(t, i + 1, i + Len(p)) = p

KwImpression == <<"i", "m", "p", "r", "e", "s", "s", "i", "o", "n">>
KwClick      == <<"c", "l", "i", "c", "k">>
KwCtr        == <<"c", "t", "r">>
KwSpend      == <<"s", "p", "e", "n", "d">>
KwCost       == <<"c", "o", "s", "t">>
KwConversion == <<"c", "o", "n", "v", "e", "r", "s", "i", "o", "n">>
KwRevenue    == <<"r", "e", "v", "e", "n", "u", "e">>
KwSales      == <<"s", "a", "l", "e", "s">>

\* the same with the spend rule tried before the clicks rule
RenameTo_spendFirst(name) ==
    LET col_lower == Lower(Chars(name))
    IN  IF Contains(col_lower, KwImpression) THEN "impressions"
        ELSE IF Contains(col_lower, KwSpend) \/ Contains(col_lower, KwCost) THEN "spend"
        ELSE IF Contains(col_lower, KwClick) /\ ~Contains(col_lower, KwCtr) THEN "clicks"
        ELSE IF Contains(col_lower, KwConversion) THEN "conversions"
        ELSE IF Contains(col_lower, KwRevenue) \/ Contains(col_lower, KwSales) THEN "revenue"
        ELSE name

\* lines 68-79: the canonical name a column is renamed to (itself if no rule
\* matches); the first matching rule wins
RenameTo(name) ==
    LET col_lower == Lower(Chars(name))
    IN  IF Contains(col_lower, KwImpression) THEN "impressions"
        ELSE IF Contains(col_lower, KwClick) /\ ~Contains(col_lower, KwCtr) THEN "clicks"
        ELSE IF Contains(col_lower, KwSpend) \/ Contains(col_lower, KwCost) THEN "spend"
        ELSE IF Contains(col_lower, KwConversion) THEN "conversions"
        ELSE IF Contains(col_lower, KwRevenue) \/ Contains(col_lower, KwSales) THEN "revenue"
        ELSE name

\* df.rename(columns=col_mapping): names change in place, order and cells stay
Rename(t) == [t EXCEPT !.cols = [i \in DOMAIN t.cols |-> [t.cols[i] EXCEPT !.name = RenameTo(@)]]]

\* df.columns as a set, and the positions carrying a name
Names(t) == {t.cols[i].name : i \in DOMAIN t.cols}
Positions(t, name) == {i \in DOMAIN t.cols : t.cols[i].name = name}
IsDuplicated(t, name) == Cardinality(Positions(t, name)) > 1
\* df[name], for a name carried by exactly one column
Col(t, name) == t.cols[CHOOSE i \in Positions(t, name) : TRUE]

\* the same putting a new column in front of the others
SetColumn_front(t, name, vals) ==
    [t EXCEPT !.cols = <<Column(name, "num", vals)>> \o @]

\* df[name] = vals: overwrite the column of that name, or append a new one
SetColumn(t, name, vals) ==
    IF name \in Names(t)
    THEN [t EXCEPT !.cols = [i \in DOMAIN t.cols |->
                                IF t.cols[i].name = name
                                THEN Column(name, "num", vals) ELSE t.cols[i]]]
    ELSE [t EXCEPT !.cols = Append(@, Column(name, "num", vals))]

\* np.where(den > 0, (num / den) * factor, 0), one row
SafeRatio_ne(num, den, factor) ==
    IF den # Num(0) THEN RatMul(RatDiv(num, den), Num(factor)) ELSE Num(0)

SafeRatio(num, den, factor) ==
    IF RatGt(den, Num(0)) THEN RatMul(RatDiv(num, den), Num(factor)) ELSE Num(0)

(* One "if <num> in columns and <den> in columns: df[out] = np.where(...)"
   block.  When df[<name>] is not one numeric column the block raises: with
   two columns of that name df[<name>] is a DataFrame and the shapes of
   np.where's arguments do not agree (ValueError); with a text or datetime
   column the comparison with 0 or the division raises TypeError.           *)
KpiStep(t, out, numName, denName, factor) ==
    IF Raised(t) THEN t
    ELSE IF ~(numName \in Names(t) /\ denName \in Names(t)) THEN t
    ELSE IF IsDuplicated(t, numName) \/ IsDuplicated(t, denName)
         THEN [raised |-> "ValueError"]
    ELSE IF Col(t, numName).dtype # "num" \/ Col(t, denName).dtype # "num"
         THEN [raised |-> "TypeError"]
    ELSE SetColumn(t, out,
            [r \in 1..t.nrows |->
                SafeRatio(Col(t, numName).vals[r], Col(t, denName).vals[r], factor)])

\* lines 85-90, 93-98, 101-106, 109-114, 117-122: the derived column, its
\* numerator column, its denominator column and the factor
CtrStep(t)  == KpiStep(t, "CTR", "clicks", "impressions", 100)
CpcStep(t)  == KpiStep(t, "CPC", "spend", "clicks", 1)
CpmStep(t)  == KpiStep(t, "CPM", "spend", "impressions", 1000)
CvrStep(t)  == KpiStep(t, "Conversion_Rate", "conversions", "clicks", 100)
RoasStep(t) == KpiStep(t, "ROAS", "revenue", "spend", 1)

calculate_kpis(t) == RoasStep(CvrStep(CpmStep(CpcStep(CtrStep(Rename(t))))))

-----------------------------------------------------------------------------
(* get_summary_metrics: src/src/process.py lines 127-178 *)

BaseMetrics == <<"impressions", "clicks", "spend", "conversions", "revenue">>

RECURSIVE SumTo(_, _)
SumTo(vals, k) == IF k = 0 THEN Num(0) ELSE RatAdd(SumTo(vals, k - 1), vals[k])
\* Series.sum(), Series.mean() (the mean of no rows is NaN)
Sum(vals) == SumTo(vals, Len(vals))
Mean(vals) == IF Len(vals) = 0 THEN NaN ELSE RatDiv(Sum(vals), Num(Len(vals)))

\* df[col].sum() and df[col].mean() where df[col] is a DataFrame: one value per
\* column, a Series
SeriesValue == [py |-> "Series"]

Put(s, key, v) == (key :> v) @@ s

\* line 143, "if col in df.columns" being false: nothing is stored
AbsentColumn_zero(s, col) == Put(Put(s, "total_" \o col, Num(0)), "avg_" \o col, Num(0))

AbsentColumn(s, col) == s

\* line 145: df[col].mean(), over all rows
Avg_nonzero(vals) == Mean(SelectSeq(vals, LAMBDA v : v # Num(0)))

Avg(vals) == Mean(vals)

(* lines 142-145, for the first k base metrics.  Where df[col] is two columns
   sum() and mean() give a Series each; where it is a text column mean()
   raises TypeError.                                                        *)
RECURSIVE Totals(_, _)
Totals(t, k) ==
    IF k = 0 THEN <<>>
    ELSE LET s == Totals(t, k - 1)
             col == BaseMetrics[k]
         IN  IF Raised(s) THEN s
             ELSE IF col \notin Names(t) THEN AbsentColumn(s, col)
             ELSE IF IsDuplicated(t, col)
                  THEN Put(Put(s, "total_" \o col, SeriesValue), "avg_" \o col, SeriesValue)
             ELSE IF Col(t, col).dtype # "num" THEN [raised |-> "TypeError"]
             ELSE Put(Put(s, "total_" \o col, Sum(Col(t, col).vals)),
                      "avg_" \o col, Avg(Col(t, col).vals))

\* One "if '<a>' in summary and '<b>' in summary:" block: the keys tested are
\* the bare metric names, the values read are the totals.
Overall(s, out, a, b, numKey, denKey, factor) ==
    IF Raised(s) THEN s
    ELSE IF Has(s, a) /\ Has(s, b)
         THEN IF RatGt(s[denKey], Num(0))
              THEN Put(s, out, RatMul(RatDiv(s[numKey], s[denKey]), Num(factor)))
              ELSE Put(s, out, Num(0))
    ELSE s

get_summary_metrics(t) ==
    LET s0 == Totals(t, Len(BaseMetrics))
        s1 == Overall(s0, "overall_CTR", "impressions", "clicks",
                      "total_clicks", "total_impressions", 100)
        s2 == Overall(s1, "overall_CPC", "spend", "clicks",
                      "total_spend", "total_clicks", 1)
        s3 == Overall(s2, "overall_CPM", "spend", "impressions",
                      "total_spend", "total_impressions", 1000)
        s4 == Overall(s3, "overall_Conversion_Rate", "conversions", "clicks",
                      "total_conversions", "total_clicks", 100)
    IN  Overall(s4, "overall_ROAS", "revenue", "spend",
                "total_revenue", "total_spend", 1)

-----------------------------------------------------------------------------
(* The insight generators applied to every summary of a bounded set *)

InsightKeys == {"overall_CTR", "overall_CPC", "overall_ROAS", "overall_Conversion_Rate"}

\* values below, at and above the thresholds 1.0 and 2.0, and one (1/8) whose
\* third decimal is a 5
SummaryValues == {Frac(1, 8), Frac(99, 100), Num(1), Num(2), Frac(201, 100)}

Summaries == UNION { [K -> SummaryValues] : K \in SUBSET InsightKeys }

\* the texts a provider may answer with: a document or a word that is no JSON,
\* bare, followed by a newline, or inside a fence
ResponseBodies == JsonDocs \cup {"Sorry"}
ResponseTexts ==
    {<<>>}
    \cup { <<b>> : b \in ResponseBodies }
    \cup { <<b, "\n">> : b \in ResponseBodies }
    \cup { FenceJson \o <<"\n", b, "\n">> \o Fence : b \in ResponseBodies }
    \cup { Fence \o <<"\n", b, "\n">> \o Fence : b \in ResponseBodies }

ProviderOutcomes ==
    { [kind |-> "raise", at |-> f] : f \in ProviderFailures }
    \cup { [kind |-> "no_content"] }
    \cup { [kind |-> "text", text |-> t] : t \in ResponseTexts }

NotCalled == [fn |-> "none"]

\* no application session: nothing uploaded, nothing stored
NoSession ==
    /\ df_raw = NoValue
    /\ df_clean = NoValue
    /\ charts = NoValue
    /\ uploaded_file = NoValue
    /\ origin = NoValue

InitInsights ==
    /\ summary \in Summaries
    /\ insights = NoValue
    /\ call = NotCalled
    /\ df = NoValue
    /\ df_kpi = NoValue
    /\ df_kpi2 = NoValue
    /\ NoSession
    /\ heap = <<>>
    /\ calls = <<>>

CallFallback ==
    /\ call = NotCalled
    /\ summary # NoValue
    /\ ~Raised(summary)
    /\ insights' = generate_fallback_insights(summary)
    /\ call' = [fn |-> "generate_fallback_insights"]
    /\ UNCHANGED <<df, df_kpi, summary, df_kpi2, sessionVars, callVars>>

CallOpenAI ==
    /\ call = NotCalled
    /\ summary # NoValue
    /\ \E o \in ProviderOutcomes :
          /\ insights' = generate_insights_openai(summary, o)
          /\ call' = [fn |-> "generate_insights_openai", outcome |-> o]
    /\ UNCHANGED <<df, df_kpi, summary, df_kpi2, sessionVars, callVars>>

CallGemini ==
    /\ call = NotCalled
    /\ summary # NoValue
    /\ \E o \in ProviderOutcomes :
          /\ insights' = generate_insights_gemini(summary, o)
          /\ call' = [fn |-> "generate_insights_gemini", outcome |-> o]
    /\ UNCHANGED <<df, df_kpi, summary, df_kpi2, sessionVars, callVars>>

NextInsights == CallFallback \/ CallOpenAI \/ CallGemini

SpecInsights == InitInsights /\ [][NextInsights]_vars

-----------------------------------------------------------------------------
(* The pipeline calculate_kpis -> get_summary_metrics ->
   generate_fallback_insights (src/app.py lines 404-409, 521) applied to
   every table of a bounded set *)

\* the most rows of a generated table
MaxRows == 2

\* cell values of the generated tables: negative, zero and two positive ones
CellValues == {Num(-1), Num(0), Num(1), Num(3)}

\* the column names of the generated tables, as an exporter may spell them;
\* every pair feeds one derived field
Schemas ==
    { <<"Impressions", "Clicks">>, <<"Spend", "Clicks">>, <<"Ad Cost", "impressions">>,
      <<"Conversions", "clicks">>, <<"Revenue", "Spend">>, <<"Sales">>, <<"Clicks">> }

NumTable(names, n, cells) ==
    [nrows |-> n,
     cols  |-> [i \in DOMAIN names |-> Column(names[i], "num", cells[i])]]

\* the cells of a generated table: for each column, a value for each row
CellsOf(names, n) == [DOMAIN names -> [1..n -> CellValues]]

Nums(ints) == [i \in DOMAIN ints |-> Num(ints[i])]

\* impressions {100, 300} and clicks {10, 15}
VolumeTable ==
    NumTable(<<"Impressions", "Clicks">>, 2, <<Nums(<<100, 300>>), Nums(<<10, 15>>)>>)

\* a campaign export with all five base metrics and a text column
ScenarioTable ==
    [nrows |-> 2,
     cols  |-> << Column("campaign", "obj", <<"A", "B">>),
                  Column("impressions", "num", Nums(<<1000, 2000>>)),
                  Column("clicks", "num", Nums(<<20, 10>>)),
                  Column("spend", "num", Nums(<<50, 30>>)),
                  Column("conversions", "num", Nums(<<2, 1>>)),
                  Column("revenue", "num", Nums(<<150, 60>>)) >>]

\* two columns that both rename to spend, beside clicks
DuplicateSpendTable ==
    NumTable(<<"Spend", "Ad Cost", "Clicks">>, 2,
             <<Nums(<<1, 3>>), Nums(<<1, 1>>), Nums(<<1, 3>>)>>)

\* two columns that both rename to revenue, and no spend
DuplicateRevenueTable ==
    NumTable(<<"Revenue", "Sales">>, 2, <<Nums(<<1, 3>>), Nums(<<3, 3>>)>>)

\* a column of formatted numbers that clean_data's keywords do not match
\* ("Click" does not contain "clicks"), so that it is still text
TextClickTable ==
    [nrows |-> 2,
     cols  |-> << Column("Click", "obj", <<"1,200", "3,400">>),
                  Column("Impressions", "num", Nums(<<100, 300>>)) >>]

TextClickOnlyTable ==
    [nrows |-> 2, cols |-> << Column("Click", "obj", <<"1,200", "3,400">>) >>]

\* column names that match several renaming rules, or a rule's exception
AmbiguousSchemas ==
    { <<"cost_per_click", "Impressions">>, <<"Conversion Revenue", "Ad Cost">>,
      <<"impression_cost", "Clicks">>, <<"click_ctr", "campaign">>,
      <<"Click CTR Cost", "Clicks">> }

\* tables that already carry a column with a derived field's name
DerivedNameSchemas ==
    { <<"CTR", "Spend">>, <<"ROAS">>, <<"CPC", "CPM">>, <<"CTR", "Clicks", "Impressions">>,
      <<"Conversion_Rate", "Clicks">> }

\* one row, every cell 3
OneRowTable(names) == NumTable(names, 1, [i \in DOMAIN names |-> <<Num(3)>>])

FixedTables ==
    { VolumeTable, ScenarioTable, DuplicateSpendTable, DuplicateRevenueTable,
      TextClickTable, TextClickOnlyTable }
    \cup { OneRowTable(names) : names \in AmbiguousSchemas \cup DerivedNameSchemas }

\* a generated table of at most MaxRows rows, or one of the fixed tables
InitPipeline ==
    /\ \/ \E names \in Schemas, n \in 0..MaxRows :
             \E cells \in CellsOf(names, n) : df = NumTable(names, n, cells)
       \/ df \in FixedTables
    /\ df_kpi = NoValue
    /\ summary = NoValue
    /\ insights = NoValue
    /\ call = NotCalled
    /\ df_kpi2 = NoValue
    /\ NoSession
    /\ heap = <<>>
    /\ calls = <<>>

\* app.py line 404: df_kpi = calculate_kpis(df_clean)
CalculateKpis ==
    /\ df # NoValue
    /\ df_kpi = NoValue
    /\ df_kpi' = calculate_kpis(df)
    /\ UNCHANGED <<df, summary, insights, call, df_kpi2, sessionVars, callVars>>

\* app.py line 408: summary = get_summary_metrics(df_kpi); not reached when
\* calculate_kpis raised
GetSummaryMetrics ==
    /\ df_kpi # NoValue
    /\ ~Raised(df_kpi)
    /\ summary = NoValue
    /\ summary' = get_summary_metrics(df_kpi)
    /\ UNCHANGED <<df, df_kpi, insights, call, df_kpi2, sessionVars, callVars>>

\* calculate_kpis applied to the table it returned
CalculateKpisAgain ==
    /\ df_kpi # NoValue
    /\ ~Raised(df_kpi)
    /\ df_kpi2 = NoValue
    /\ df_kpi2' = calculate_kpis(df_kpi)
    /\ UNCHANGED <<df, df_kpi, summary, insights, call, sessionVars, callVars>>

NextPipeline == CalculateKpis \/ GetSummaryMetrics \/ CallFallback \/ CalculateKpisAgain

SpecPipeline == InitPipeline /\ [][NextPipeline]_vars

-----------------------------------------------------------------------------
(* clean_data (src/src/process.py lines 9-51).  A raw table is what
   pd.read_csv returns: a numeric column holds numbers and NaN, a text
   (object) column holds texts and NaN.  A text cell is [text |-> characters];
   a cell of a datetime column is [datetime |-> the cell it was parsed from]
   (the timestamp, or NaT when the cell does not parse).                     *)

TextCell(string) == [text |-> string]

\* line 22 and the numeric_candidates of lines 31-32
date_columns == {"date", "Date", "DATE", "day", "Day"}
KwDate == <<"d", "a", "t", "e">>
numeric_candidates ==
    { <<"i", "m", "p", "r", "e", "s", "s", "i", "o", "n", "s">>, <<"c", "l", "i", "c", "k", "s">>,
      <<"s", "p", "e", "n", "d">>, <<"c", "o", "n", "v", "e", "r", "s", "i", "o", "n", "s">>,
      <<"r", "e", "v", "e", "n", "u", "e">>, <<"c", "o", "s", "t">>, <<"s", "a", "l", "e", "s">>,
      <<"c", "p", "c">>, <<"c", "p", "m">>, <<"c", "t", "r">> }

\* line 24: col in date_columns or 'date' in col.lower()
IsDateColumn(name) == name \in date_columns \/ Contains(Lower(Chars(name)), KwDate)

\* line 35: any(keyword in col.lower() for keyword in numeric_candidates)
IsNumericCandidate(name) == \E keyword \in numeric_candidates : Contains(Lower(Chars(name)), keyword)

\* pd.to_datetime(column, errors='coerce'): every cell becomes a datetime
\* value (NaT for a missing or unparseable one)
ToDatetime(col) ==
    Column(col.name, "datetime", [r \in DOMAIN col.vals |-> [datetime |-> col.vals[r]]])

\* lines 23-29
DateStep(t) ==
    [t EXCEPT !.cols = [i \in DOMAIN t.cols |->
        IF IsDateColumn(t.cols[i].name) THEN ToDatetime(t.cols[i]) ELSE t.cols[i]]]

DigitOf ==
    ("0" :> 0) @@ ("1" :> 1) @@ ("2" :> 2) @@ ("3" :> 3) @@ ("4" :> 4) @@
    ("5" :> 5) @@ ("6" :> 6) @@ ("7" :> 7) @@ ("8" :> 8) @@ ("9" :> 9)

RECURSIVE DigitsValue(_)
DigitsValue(ds) ==
    IF ds = <<>> THEN 0
    ELSE 10 * DigitsValue(SubSeq(ds, 1, Len(ds) - 1)) + DigitOf[ds[Len(ds)]]

RECURSIVE Pow10(_)
Pow10(k) == IF k = 0 THEN 1 ELSE 10 * Pow10(k - 1)

\* pd.to_numeric(text, errors='coerce'): an optional minus sign, digits with
\* at most one decimal point; anything else is NaN
to_numeric(t) ==
    LET neg    == t # <<>> /\ Head(t) = "-"
        body   == IF neg THEN Tail(t) ELSE t
        dots   == {i \in DOMAIN body : body[i] = "."}
        digits == SelectSeq(body, LAMBDA c : c # ".")
        nfrac  == IF dots = {} THEN 0 ELSE Len(body) - (CHOOSE i \in dots : TRUE)
    IN  IF /\ Cardinality(dots) <= 1
           /\ digits # <<>>
           /\ \A i \in DOMAIN digits : digits[i] \in DOMAIN DigitOf
        THEN Frac((IF neg THEN -1 ELSE 1) * DigitsValue(digits), Pow10(nfrac))
        ELSE NaN

\* astype(str): a missing cell becomes the text "nan"
AsStr(cell) == IF cell = NaN THEN <<"n", "a", "n">> ELSE cell.text

\* str.replace(c, '', regex=False)
Remove(t, c) == SelectSeq(t, LAMBDA x : x # c)

\* lines 39-42, one cell
CleanCell(cell) == to_numeric(Remove(Remove(Remove(AsStr(cell), "$"), ","), "%"))

\* lines 34-42
NumericStep(t) ==
    [t EXCEPT !.cols = [i \in DOMAIN t.cols |->
        IF IsNumericCandidate(t.cols[i].name) /\ t.cols[i].dtype = "obj"
        THEN Column(t.cols[i].name, "num",
                    [r \in DOMAIN t.cols[i].vals |-> CleanCell(t.cols[i].vals[r])])
        ELSE t.cols[i]]]

\* lines 45-46: fillna(0) on the numeric columns
FillNumeric(t) ==
    [t EXCEPT !.cols = [i \in DOMAIN t.cols |->
        IF t.cols[i].dtype = "num"
        THEN [t.cols[i] EXCEPT !.vals = [r \in DOMAIN @ |-> IF IsNaN(@[r]) THEN Num(0) ELSE @[r]]]
        ELSE t.cols[i]]]

\* lines 49-50: fillna('') on the text columns
FillText(t) ==
    [t EXCEPT !.cols = [i \in DOMAIN t.cols |->
        IF t.cols[i].dtype = "obj"
        THEN [t.cols[i] EXCEPT !.vals = [r \in DOMAIN @ |-> IF @[r] = NaN THEN TextCell(<<>>) ELSE @[r]]]
        ELSE t.cols[i]]]

clean_data(t) == FillText(FillNumeric(NumericStep(DateStep(t))))

(* clean_data applied to every raw table of a bounded set *)

\* the texts of raw cells: formatted numbers, plain numbers, a word, a date
RawTexts ==
    { TextCell(<<"$", "1", ",", "2", "0", "0">>), TextCell(<<"1", "2", "%">>), TextCell(<<"-", "3">>),
      TextCell(<<"2", ".", "5">>), TextCell(<<"t", "b", "d">>), TextCell(<<"2", "0", "2", "4", "-", "0", "1", "-", "0", "5">>) }

\* pd.read_csv types a column as text only if some cell is neither missing
\* nor a plain number
IsTextColumn(vals) ==
    \E r \in DOMAIN vals : vals[r] # NaN /\ IsNaN(to_numeric(vals[r].text))

\* the cells a raw column of n rows can hold
RawCells(dtype, n) ==
    IF dtype = "num" THEN [1..n -> {NaN, Num(-1), Num(0), Num(3)}]
    ELSE {vals \in [1..n -> RawTexts \cup {NaN}] : n = 0 \/ IsTextColumn(vals)}

\* raw schemas: column names and types
RawSchemas ==
    { << <<"Spend", "obj">> >>, << <<"Updated Cost", "obj">> >>, << <<"Sales Date", "obj">> >>,
      << <<"campaign", "obj">> >>, << <<"Click", "obj">> >>, << <<"Date", "obj">> >>,
      << <<"Clicks", "num">> >>, << <<"Cost", "obj">>, <<"Clicks", "num">> >>,
      << <<"Click", "obj">>, <<"Impressions", "num">> >> }

RawTable(schema, n, cells) ==
    [nrows |-> n,
     cols  |-> [i \in DOMAIN schema |-> Column(schema[i][1], schema[i][2], cells[i])]]

InitClean ==
    /\ \E schema \in RawSchemas, n \in 0..MaxRows :
          \E cells \in [DOMAIN schema -> UNION {RawCells(d, n) : d \in {"num", "obj"}}] :
              /\ \A i \in DOMAIN schema : cells[i] \in RawCells(schema[i][2], n)
              /\ df_raw = RawTable(schema, n, cells)
    /\ df_clean = NoValue
    /\ df = NoValue
    /\ df_kpi = NoValue
    /\ df_kpi2 = NoValue
    /\ summary = NoValue
    /\ insights = NoValue
    /\ call = NotCalled
    /\ charts = NoValue
    /\ uploaded_file = NoValue
    /\ origin = NoValue
    /\ heap = <<>>
    /\ calls = <<>>

\* app.py lines 400-401: df_clean = clean_data(df)
CleanData ==
    /\ df_raw # NoValue
    /\ df_clean = NoValue
    /\ df_clean' = clean_data(df_raw)
    /\ UNCHANGED <<df, df_kpi, df_kpi2, summary, insights, call, df_raw, charts,
                   uploaded_file, origin, callVars>>

\* app.py lines 404-405: df_kpi = calculate_kpis(df_clean)
CalculateKpisClean ==
    /\ df_clean # NoValue
    /\ df_kpi = NoValue
    /\ df_kpi' = calculate_kpis(df_clean)
    /\ UNCHANGED <<df, df_clean, df_kpi2, summary, insights, call, df_raw, charts,
                   uploaded_file, origin, callVars>>

NextClean == CleanData \/ CalculateKpisClean

SpecClean == InitClean /\ [][NextClean]_vars

-----------------------------------------------------------------------------
(* Properties of calculate_kpis and get_summary_metrics (checked under
   SpecPipeline) *)

KpisComputed == df_kpi # NoValue /\ ~Raised(df_kpi)
SummaryComputed == KpisComputed /\ summary # NoValue /\ ~Raised(summary)

\* the five ratios: the derived column, the overall key, numerator column,
\* denominator column, factor
Ratios ==
    { [out |-> "CTR", overall |-> "overall_CTR", num |-> "clicks", den |-> "impressions", factor |-> 100],
      [out |-> "CPC", overall |-> "overall_CPC", num |-> "spend", den |-> "clicks", factor |-> 1],
      [out |-> "CPM", overall |-> "overall_CPM", num |-> "spend", den |-> "impressions", factor |-> 1000],
      [out |-> "Conversion_Rate", overall |-> "overall_Conversion_Rate",
       num |-> "conversions", den |-> "clicks", factor |-> 100],
      [out |-> "ROAS", overall |-> "overall_ROAS", num |-> "revenue", den |-> "spend", factor |-> 1] }

BaseMetricSet == {BaseMetrics[i] : i \in DOMAIN BaseMetrics}

\* the table has exactly one column of this name and it is numeric
NumericColumn(t, name) ==
    /\ Cardinality(Positions(t, name)) = 1
    /\ \A i \in Positions(t, name) : t.cols[i].dtype = "num"

\* the cells of the one column of this name
Cells(t, name) == t.cols[CHOOSE i \in Positions(t, name) : TRUE].vals

\* every base-metric column of the table, after renaming, is one numeric column
BaseColumnsNumeric(t) ==
    \A m \in BaseMetricSet : m \in Names(Rename(t)) => NumericColumn(Rename(t), m)

\* a column total, added up from the last row backwards
RECURSIVE TotalFrom(_, _)
TotalFrom(vals, k) ==
    IF k > Len(vals) THEN Num(0) ELSE RatAdd(vals[k], TotalFrom(vals, k + 1))
ColumnTotal(vals) == TotalFrom(vals, 1)

\* q is num/den*factor, stated without dividing
IsRatio(q, num, den, factor) ==
    /\ ~IsNaN(q)
    /\ q.n * den.n * num.d = num.n * factor * den.d * q.d

(* C1: after calculate_kpis and get_summary_metrics, whenever both base
   columns of a ratio are present the summary has the overall_* key, and its
   value is total numerator / total denominator (times 100 or 1000), or 0
   when the total denominator is <= 0.                                       *)
C1_OverallFromTotals ==
    SummaryComputed =>
        \A q \in Ratios :
            (NumericColumn(df_kpi, q.num) /\ NumericColumn(df_kpi, q.den)) =>
                /\ Has(summary, q.overall)
                /\ LET num == ColumnTotal(Cells(df_kpi, q.num))
                       den == ColumnTotal(Cells(df_kpi, q.den))
                   IN  IF RatGt(den, Num(0))
                       THEN IsRatio(summary[q.overall], num, den, q.factor)
                       ELSE summary[q.overall] = Num(0)

(* C2: in every table calculate_kpis returns, for every derived field whose
   two source columns exist (as numeric columns), every row holds
   numerator / denominator * factor when the denominator is > 0 and exactly 0
   when it is <= 0; the call does not raise and no cell is NaN.              *)
C2_SafeDivisionPerRow ==
    (df_kpi # NoValue /\ BaseColumnsNumeric(df)) =>
        /\ ~Raised(df_kpi)
        /\ \A q \in Ratios :
              (q.num \in Names(df_kpi) /\ q.den \in Names(df_kpi)) =>
                  /\ NumericColumn(df_kpi, q.out)
                  /\ Len(Cells(df_kpi, q.out)) = df.nrows
                  /\ \A r \in 1..df.nrows :
                        LET num == Cells(df_kpi, q.num)[r]
                            den == Cells(df_kpi, q.den)[r]
                            v   == Cells(df_kpi, q.out)[r]
                        IN  IF RatGt(den, Num(0))
                            THEN IsRatio(v, num, den, q.factor)
                            ELSE v = Num(0)

\* a row with a negative denominator beside a row with a positive one
C2_Witness ==
    /\ KpisComputed
    /\ BaseColumnsNumeric(df)
    /\ df.nrows = 2
    /\ NumericColumn(df_kpi, "impressions") /\ NumericColumn(df_kpi, "clicks")
    /\ Cells(df_kpi, "impressions") = <<Num(-1), Num(3)>>
    /\ Cells(df_kpi, "clicks") = <<Num(1), Num(1)>>
    /\ Cells(df_kpi, "CTR") = <<Num(0), Frac(100, 3)>>

\* the summary keys that depend on a base metric
KeysOf(m) ==
    {"total_" \o m, "avg_" \o m} \cup {q.overall : q \in {x \in Ratios : m \in {x.num, x.den}}}

(* C3: get_summary_metrics emits total_<m>, avg_<m> and the overall_* keys
   that depend on <m> only if its table has a column <m>; for an absent
   column the keys are not in the mapping at all.                            *)
C3_KeysOnlyForPresentColumns ==
    SummaryComputed =>
        \A m \in BaseMetricSet :
            m \notin Names(df_kpi) => KeysOf(m) \cap DOMAIN summary = {}

\* a table with spend but no revenue: totals for spend, nothing for revenue
C3_Witness ==
    /\ SummaryComputed
    /\ "revenue" \notin Names(df_kpi)
    /\ "spend" \in Names(df_kpi)
    /\ Has(summary, "total_spend") /\ Has(summary, "avg_spend")
    /\ {"total_revenue", "avg_revenue", "overall_ROAS"} \cap DOMAIN summary = {}

(* C4: for each base metric whose column is present, total_<metric> is the
   sum of the column over all rows and avg_<metric> is that sum divided by
   the number of rows, zero-valued rows counted (avg * rows = total).        *)
C4_TotalsAndAverages ==
    SummaryComputed =>
        \A m \in BaseMetricSet :
            NumericColumn(df_kpi, m) =>
                /\ Has(summary, "total_" \o m) /\ Has(summary, "avg_" \o m)
                /\ summary["total_" \o m] = ColumnTotal(Cells(df_kpi, m))
                /\ IF df_kpi.nrows = 0
                   THEN IsNaN(summary["avg_" \o m])
                   ELSE /\ ~IsNaN(summary["avg_" \o m])
                        /\ RatMul(summary["avg_" \o m], Num(df_kpi.nrows)) = summary["total_" \o m]

\* a column with a zero-valued row: the zero row counts in the divisor
C4_Witness ==
    /\ SummaryComputed
    /\ df_kpi.nrows = 2
    /\ NumericColumn(df_kpi, "clicks")
    /\ Cells(df_kpi, "clicks") = <<Num(0), Num(3)>>
    /\ summary["total_clicks"] = Num(3)
    /\ summary["avg_clicks"] = Frac(3, 2)

-----------------------------------------------------------------------------
(* Properties of the insight generators (checked under SpecInsights) *)

FourKeys == {"key_insights", "trends", "issues", "recommendations"}

\* the number of entries of a sequence carrying a given fixed text
Count(seq, text) == Cardinality({i \in DOMAIN seq : seq[i].text = text})
\* the number of entries equal to a given sentence
CountMsg(seq, m) == Cardinality({i \in DOMAIN seq : seq[i] = m})

FallbackCalled == call.fn = "generate_fallback_insights"
ProviderCalled == call.fn \in {"generate_insights_openai", "generate_insights_gemini"}

\* the provider step failed: an exception before any response, no content, or
\* a text that holds no JSON document at all
ProviderStepFailed(o) ==
    \/ o.kind \in {"raise", "no_content"}
    \/ o.kind = "text" /\ \A i \in DOMAIN o.text : o.text[i] \notin JsonDocs

(* C5: whenever the provider step of generate_insights_openai or
   generate_insights_gemini fails (import, authentication, prompt, network, or
   a response that is no JSON), no exception reaches the caller and the value
   returned equals generate_fallback_insights of the same summary.          *)
C5_FallbackOnFailure ==
    (ProviderCalled /\ ProviderStepFailed(call.outcome)) =>
        /\ ~Raised(insights)
        /\ insights = generate_fallback_insights(summary)

C5_Witness ==
    /\ call.fn = "generate_insights_openai"
    /\ call.outcome = [kind |-> "raise", at |-> "network"]
    /\ DOMAIN summary = InsightKeys
    /\ DOMAIN insights = FourKeys
    /\ Len(insights.issues) = 4

(* C6: whatever the provider answers, the value generate_insights_openai /
   generate_insights_gemini returns is a mapping with exactly the four keys
   key_insights, trends, issues, recommendations (never None, a list or a
   partial object).                                                         *)
C6_AlwaysFourKeyMapping ==
    ProviderCalled => DOMAIN insights = FourKeys

(* C7: the recommendations generate_fallback_insights returns are at most 5,
   however many metric-specific recommendations fire.                       *)
C7_RecommendationCap ==
    FallbackCalled => Len(insights.recommendations) <= 5

\* all four metric-specific recommendations fired
C7_Witness ==
    /\ FallbackCalled
    /\ DOMAIN summary = InsightKeys
    /\ summary["overall_CTR"] = Frac(99, 100)
    /\ summary["overall_CPC"] = Frac(201, 100)
    /\ summary["overall_ROAS"] = Frac(99, 100)
    /\ summary["overall_Conversion_Rate"] = Num(1)
    /\ Len(insights.recommendations) = 5
    /\ insights.recommendations[4] = CvrRecommendation

(* C8: with overall_CTR present, a value strictly below 1.0 gives exactly one
   low-CTR issue and one creative recommendation and no CTR key insight; any
   other value, 1.0 included, gives exactly one good-engagement key insight
   and no CTR issue or recommendation.                                       *)
C8_CtrRule ==
    (FallbackCalled /\ Has(summary, "overall_CTR")) =>
        LET ctr == summary["overall_CTR"]
            nIssue == Count(insights.issues, LowCtrIssue(ctr).text)
            nRec   == Count(insights.recommendations, CtrRecommendation.text)
            nKey   == Count(insights.key_insights, GoodCtrInsight(ctr).text)
        IN  IF RatLt(ctr, Num(1))
            THEN /\ nIssue = 1 /\ nRec = 1 /\ nKey = 0
                 /\ CountMsg(insights.issues, LowCtrIssue(ctr)) = 1
            ELSE /\ nIssue = 0 /\ nRec = 0 /\ nKey = 1
                 /\ CountMsg(insights.key_insights, GoodCtrInsight(ctr)) = 1

\* the threshold itself: overall_CTR = 1.0 is reported as good engagement
C8_Witness ==
    /\ FallbackCalled
    /\ Has(summary, "overall_CTR")
    /\ summary["overall_CTR"] = Num(1)
    /\ Count(insights.key_insights, GoodCtrInsight(Num(1)).text) = 1

(* C9: with overall_CPC present, a key insight stating the CPC is always
   appended; a high-CPC issue and a bidding recommendation are appended if
   and only if the CPC is strictly greater than 2.0.                        *)
C9_CpcRule ==
    (FallbackCalled /\ Has(summary, "overall_CPC")) =>
        LET cpc == summary["overall_CPC"]
            nIssue == Count(insights.issues, HighCpcIssue(cpc).text)
            nRec   == Count(insights.recommendations, CpcRecommendation.text)
        IN  /\ Count(insights.key_insights, CpcInsight(cpc).text) = 1
            /\ CountMsg(insights.key_insights, CpcInsight(cpc)) = 1
            /\ IF RatGt(cpc, Num(2))
               THEN nIssue = 1 /\ nRec = 1 /\ CountMsg(insights.issues, HighCpcIssue(cpc)) = 1
               ELSE nIssue = 0 /\ nRec = 0

\* the threshold itself: a CPC of exactly 2.0 adds the key insight only
C9_Witness ==
    /\ FallbackCalled
    /\ Has(summary, "overall_CPC")
    /\ summary["overall_CPC"] = Num(2)
    /\ CountMsg(insights.key_insights, CpcInsight(Num(2))) = 1
    /\ Count(insights.issues, HighCpcIssue(Num(2)).text) = 0

\* one below-2.0 metric gives an issue and a recommendation, no key insight;
\* any other value gives a key insight only
BelowTwoRule(key, issue(_), rec, keyInsight(_)) ==
    Has(summary, key) =>
        LET v == summary[key]
            nIssue == Count(insights.issues, issue(v).text)
            nRec   == Count(insights.recommendations, rec.text)
            nKey   == Count(insights.key_insights, keyInsight(v).text)
        IN  IF RatLt(v, Num(2))
            THEN nIssue = 1 /\ nRec = 1 /\ nKey = 0 /\ CountMsg(insights.issues, issue(v)) = 1
            ELSE nIssue = 0 /\ nRec = 0 /\ nKey = 1
                 /\ CountMsg(insights.key_insights, keyInsight(v)) = 1

(* C10: for each of overall_ROAS and overall_Conversion_Rate that is present,
   a value strictly below 2.0 gives exactly one issue and one recommendation
   for that metric and no key insight; a value >= 2.0 (2.0 included) gives
   exactly one key insight for it and no issue or recommendation.            *)
C10_RoasAndCvrRules ==
    FallbackCalled =>
        /\ BelowTwoRule("overall_ROAS", LowRoasIssue, RoasRecommendation, StrongRoasInsight)
        /\ BelowTwoRule("overall_Conversion_Rate", LowCvrIssue, CvrRecommendation, GoodCvrInsight)

\* ROAS exactly 2.0 (key insight) together with a conversion rate below 2.0
C10_Witness ==
    /\ FallbackCalled
    /\ Has(summary, "overall_ROAS") /\ Has(summary, "overall_Conversion_Rate")
    /\ summary["overall_ROAS"] = Num(2)
    /\ summary["overall_Conversion_Rate"] = Frac(99, 100)
    /\ CountMsg(insights.key_insights, StrongRoasInsight(Num(2))) = 1
    /\ CountMsg(insights.issues, LowCvrIssue(Frac(99, 100))) = 1

\* a metric rule put a key insight: CTR at or above 1.0, any CPC, ROAS or
\* conversion rate at or above 2.0
MetricKeyInsightExpected ==
    \/ Has(summary, "overall_CTR") /\ ~RatLt(summary["overall_CTR"], Num(1))
    \/ Has(summary, "overall_CPC")
    \/ Has(summary, "overall_ROAS") /\ ~RatLt(summary["overall_ROAS"], Num(2))
    \/ Has(summary, "overall_Conversion_Rate")
          /\ ~RatLt(summary["overall_Conversion_Rate"], Num(2))

(* C11: the result of generate_fallback_insights has a non-empty key_insights
   sequence and a trends sequence that is exactly the one generic "more data
   needed" statement; the generic key insight is present if and only if no
   metric rule produced a key insight.                                       *)
C11_DefaultInsightAndTrend ==
    FallbackCalled =>
        /\ Len(insights.key_insights) >= 1
        /\ insights.trends = <<DefaultTrend>>
        /\ (CountMsg(insights.key_insights, DefaultInsight) >= 1) <=> ~MetricKeyInsightExpected
        /\ CountMsg(insights.key_insights, DefaultInsight) <= 1

\* two rules fired (low CTR, low ROAS) without a key insight: the generic one
\* stands alone
C11_Witness ==
    /\ FallbackCalled
    /\ DOMAIN summary = {"overall_CTR", "overall_ROAS"}
    /\ summary["overall_CTR"] = Frac(99, 100)
    /\ summary["overall_ROAS"] = Num(1)
    /\ insights.key_insights = <<DefaultInsight>>
    /\ Len(insights.issues) = 2

\* the fixed texts of the sentences each metric's rule can produce
MetricTexts(key) ==
    CASE key = "overall_CTR" ->
            {LowCtrIssue(Num(0)).text, CtrRecommendation.text, GoodCtrInsight(Num(0)).text}
      [] key = "overall_CPC" ->
            {CpcInsight(Num(0)).text, HighCpcIssue(Num(0)).text, CpcRecommendation.text}
      [] key = "overall_ROAS" ->
            {LowRoasIssue(Num(0)).text, RoasRecommendation.text, StrongRoasInsight(Num(0)).text}
      [] key = "overall_Conversion_Rate" ->
            {LowCvrIssue(Num(0)).text, CvrRecommendation.text, GoodCvrInsight(Num(0)).text}

TextsIn(seq) == {seq[i].text : i \in DOMAIN seq}

(* C12: for every subset of the four overall_* keys present in the summary,
   the empty one included, generate_fallback_insights returns a mapping with
   exactly the four keys key_insights, trends, issues, recommendations, and a
   metric whose key is missing contributes no entry to issues, key_insights
   or recommendations.                                                       *)
C12_MissingKeysSkipped ==
    FallbackCalled =>
        /\ ~Raised(insights)
        /\ DOMAIN insights = FourKeys
        /\ \A key \in InsightKeys \ DOMAIN summary :
              MetricTexts(key) \cap
                  (TextsIn(insights.issues) \cup TextsIn(insights.key_insights)
                      \cup TextsIn(insights.recommendations)) = {}

\* the empty summary: only the generic sentences
C12_Witness ==
    /\ FallbackCalled
    /\ DOMAIN summary = {}
    /\ insights.issues = <<>>
    /\ insights.key_insights = <<DefaultInsight>>
    /\ insights.recommendations = GenericRecommendations

-----------------------------------------------------------------------------
(* The worked scenario and the algebra of calculate_kpis (checked under
   SpecPipeline) *)

\* the input has exactly the scenario's two rows in its five metric columns
ScenarioRows(t) ==
    /\ t.nrows = 2
    /\ \A m \in BaseMetricSet : NumericColumn(t, m)
    /\ Cells(t, "impressions") = Nums(<<1000, 2000>>)
    /\ Cells(t, "clicks") = Nums(<<20, 10>>)
    /\ Cells(t, "spend") = Nums(<<50, 30>>)
    /\ Cells(t, "conversions") = Nums(<<2, 1>>)
    /\ Cells(t, "revenue") = Nums(<<150, 60>>)

(* C13: the pipeline calculate_kpis -> get_summary_metrics ->
   generate_fallback_insights on the scenario's two rows gives per-row CTRs
   [2.0, 0.5], totals 3000 / 30 / 80 / 3 / 210, a summary with overall_CTR =
   1.0, overall_CPC = 80/30 and overall_ROAS = 2.625, and insights with the
   CTR "good engagement" key insight and no low-CTR issue.                   *)
C13_ScenarioPipeline ==
    (ScenarioRows(df) /\ SummaryComputed /\ FallbackCalled) =>
        /\ Cells(df_kpi, "CTR") = <<Num(2), Frac(1, 2)>>
        /\ summary["total_impressions"] = Num(3000)
        /\ summary["total_clicks"] = Num(30)
        /\ summary["total_spend"] = Num(80)
        /\ summary["total_conversions"] = Num(3)
        /\ summary["total_revenue"] = Num(210)
        /\ Has(summary, "overall_CTR") /\ summary["overall_CTR"] = Num(1)
        /\ Has(summary, "overall_CPC") /\ summary["overall_CPC"] = Frac(80, 30)
        /\ Has(summary, "overall_ROAS") /\ summary["overall_ROAS"] = Frac(2625, 1000)
        /\ CountMsg(insights.key_insights, GoodCtrInsight(Num(1))) = 1
        /\ Count(insights.issues, LowCtrIssue(Num(1)).text) = 0

(* C14: for every normalized table, calculate_kpis applied to the output of
   calculate_kpis yields a table identical to that first output (same column
   names, same number of columns, same values), also when the first pass
   added a Conversion_Rate column.                                           *)
C14_Idempotent ==
    (BaseColumnsNumeric(df) /\ KpisComputed /\ df_kpi2 # NoValue) => df_kpi2 = df_kpi

\* a name's lower-case form contains the keyword
Matches(name, kw) == Contains(Lower(Chars(name)), kw)

\* the rules of the renaming, by priority: the first rule a name matches
\* gives its canonical name
RuleOf(name) ==
    LET rules == << [hit |-> Matches(name, KwImpression), to |-> "impressions"],
                    [hit |-> Matches(name, KwClick) /\ ~Matches(name, KwCtr), to |-> "clicks"],
                    [hit |-> Matches(name, KwSpend) \/ Matches(name, KwCost), to |-> "spend"],
                    [hit |-> Matches(name, KwConversion), to |-> "conversions"],
                    [hit |-> Matches(name, KwRevenue) \/ Matches(name, KwSales), to |-> "revenue"] >>
        hits == {i \in DOMAIN rules : rules[i].hit}
    IN  IF hits = {} THEN name
        ELSE rules[CHOOSE i \in hits : \A j \in hits : i <= j].to

(* C15: calculate_kpis renames each column by the first matching rule in the
   order impression, click-and-not-ctr, spend-or-cost, conversion,
   revenue-or-sales (case-insensitive substring match); a column matching no
   rule keeps its name; a name matching several rules takes only the
   earliest rule's canonical name.                                           *)
C15_FirstMatchingRule ==
    KpisComputed =>
        /\ Len(df_kpi.cols) >= Len(df.cols)
        /\ \A i \in DOMAIN df.cols : df_kpi.cols[i].name = RuleOf(df.cols[i].name)

\* "cost_per_click" has both "cost" and "click": it became clicks, not spend,
\* so CTR was computed and CPC was not
C15_Witness ==
    /\ KpisComputed
    /\ df = OneRowTable(<<"cost_per_click", "Impressions">>)
    /\ Names(df_kpi) = {"clicks", "impressions", "CTR"}

\* the canonical names that two or more columns of the table rename to
Collisions(t) ==
    {m \in BaseMetricSet : Cardinality({i \in DOMAIN t.cols : RenameTo(t.cols[i].name) = m}) > 1}

\* the last column of the table that renames to m
LastMatching(t, m) ==
    LET hits == {i \in DOMAIN t.cols : RenameTo(t.cols[i].name) = m}
    IN  t.cols[CHOOSE i \in hits : \A j \in hits : j <= i]

(* C16: when two or more source columns match the same canonical name,
   calculate_kpis produces a table with exactly one column of that name,
   holding the later matching column's cells, and the KPI computation
   proceeds on it without failing.                                           *)
C16_CollisionOverwrites ==
    (df # NoValue /\ df_kpi # NoValue) =>
        \A m \in Collisions(df) :
            /\ ~Raised(df_kpi)
            /\ Cardinality(Positions(df_kpi, m)) = 1
            /\ Cells(df_kpi, m) = LastMatching(df, m).vals

(* C17: for every input table, each derived column is absent from the output
   of calculate_kpis when its source columns are absent after renaming and
   present when both exist, also when the input already carries a column
   with the derived field's name.                                            *)
C17_DerivedPresence ==
    KpisComputed =>
        \A q \in Ratios :
            LET sources == {q.num, q.den} \cap Names(Rename(df))
            IN  /\ sources = {} => q.out \notin Names(df_kpi)
                /\ sources = {q.num, q.den} => q.out \in Names(df_kpi)

-----------------------------------------------------------------------------
(* Properties of clean_data (checked under SpecClean) *)

\* a missing or unparseable cell counts 0, any other its number
ExpectedNumber(cell) ==
    IF cell = NaN THEN Num(0)
    ELSE LET stripped == SelectSeq(cell.text, LAMBDA c : c \notin {"$", ",", "%"})
         IN  IF IsNaN(to_numeric(stripped)) THEN Num(0) ELSE to_numeric(stripped)

(* C18: for every raw table clean_data returns without raising, and in its
   result (a) every cell of a textual column whose name contains one of the
   keywords is the number obtained after removing "$", "," and "%", or 0 when
   the cell is missing or unparseable; (b) no numeric column holds a missing
   value; (c) no text column holds a missing value.                          *)
C18_CleanData ==
    df_clean # NoValue =>
        /\ ~Raised(df_clean)
        /\ \A i \in DOMAIN df_raw.cols :
              (df_raw.cols[i].dtype = "obj" /\ IsNumericCandidate(df_raw.cols[i].name)) =>
                  \A r \in 1..df_raw.nrows :
                      df_clean.cols[i].vals[r] = ExpectedNumber(df_raw.cols[i].vals[r])
        /\ \A i \in DOMAIN df_clean.cols :
              /\ df_clean.cols[i].dtype = "num" =>
                    \A r \in 1..df_clean.nrows : ~IsNaN(df_clean.cols[i].vals[r])
              /\ df_clean.cols[i].dtype = "obj" =>
                    \A r \in 1..df_clean.nrows : df_clean.cols[i].vals[r] # NaN

-----------------------------------------------------------------------------
(* The application session (src/app.py main): st.session_state holds df_raw,
   df_clean, df_kpi, summary, insights and charts, all None at first.  Every
   step is one run of the script: the upload block (lines 373-378) and at
   most one button handler.                                                  *)

\* the files a user may put into the upload widget
File(name) == [file |-> name]
Files ==
    { File("campaign_a.csv"), File("campaign_b.csv"), File("duplicates.csv"),
      File("notes.csv"), File("broken.csv") }

\* the files pd.read_csv cannot read as a table
UnreadableFiles == {File("broken.csv")}

\* what pd.read_csv makes of each readable file
FileTable(f) ==
    CASE f = File("campaign_a.csv") ->
            RawTable(<< <<"Cost", "obj">>, <<"Clicks", "num">> >>, 2,
                     << <<TextCell(<<"$", "1", ",", "2", "0", "0">>), TextCell(<<"1", "2", "%">>)>>, <<Num(3), NaN>> >>)
      [] f = File("campaign_b.csv") ->
            RawTable(<< <<"Impressions", "num">>, <<"Clicks", "num">> >>, 2,
                     << <<Num(3), Num(3)>>, <<Num(0), Num(3)>> >>)
      [] f = File("duplicates.csv") ->
            RawTable(<< <<"Spend", "num">>, <<"Ad Cost", "num">>, <<"Clicks", "num">> >>, 1,
                     << <<Num(3)>>, <<Num(1)>>, <<Num(3)>> >>)
      [] f = File("notes.csv") ->
            RawTable(<< <<"campaign", "obj">> >>, 1, << <<TextCell(<<"t", "b", "d">>)>> >>)

\* the same returning an empty table for an unreadable file
load_csv_empty(f) ==
    IF f \in UnreadableFiles THEN [nrows |-> 0, cols |-> <<>>] ELSE FileTable(f)

\* ingest.py lines 19-24: the table, or None after reporting the error
load_csv(f) == IF f \in UnreadableFiles THEN PyNone ELSE FileTable(f)

\* visualize.py lines 236-263: the three chart files, always under these paths
generate_all_charts(t) ==
    [ctr_trend |-> "output/ctr_trend.png",
     spend_impressions |-> "output/spend_impressions.png",
     conversion_revenue |-> "output/conversion_revenue.png"]

SessionItems == {"df_raw", "df_clean", "df_kpi", "summary", "insights", "charts"}

\* app.py lines 245-256
InitSession ==
    /\ df_raw = PyNone
    /\ df_clean = PyNone
    /\ df_kpi = PyNone
    /\ summary = PyNone
    /\ insights = PyNone
    /\ charts = PyNone
    /\ uploaded_file = NoValue
    /\ df = NoValue
    /\ call = NotCalled
    /\ origin = [item \in SessionItems |-> NoValue]
    /\ df_kpi2 = NoValue
    /\ heap = <<>>
    /\ calls = <<>>

\* the user puts a file into the widget; the script runs: df =
\* load_csv(uploaded_file), and df_raw is set if that is not None
UploadFile ==
    \E f \in Files :
        /\ f # uploaded_file
        /\ uploaded_file' = f
        /\ df' = load_csv(f)
        /\ IF load_csv(f) # PyNone
           THEN /\ df_raw' = load_csv(f)
                /\ origin' = [origin EXCEPT !["df_raw"] = f]
           ELSE UNCHANGED <<df_raw, origin>>
        /\ call' = [fn |-> "load_csv", file |-> f]
        /\ UNCHANGED <<df_clean, df_kpi, summary, insights, charts, df_kpi2, callVars>>

\* the user removes the file from the widget: uploaded_file is None and the
\* upload block is skipped
RemoveFile ==
    /\ uploaded_file # NoValue
    /\ uploaded_file' = NoValue
    /\ df' = NoValue
    /\ call' = NotCalled
    /\ UNCHANGED <<df_raw, df_clean, df_kpi, summary, insights, charts, origin, df_kpi2, callVars>>

\* app.py lines 397-413; the button exists only when load_csv returned a
\* table.  An exception of calculate_kpis or get_summary_metrics ends the
\* run after the assignments made so far.
CleanAndProcess ==
    /\ uploaded_file # NoValue
    /\ load_csv(uploaded_file) # PyNone
    /\ LET d == load_csv(uploaded_file)
           c == clean_data(d)
           k == calculate_kpis(c)
           s == IF Raised(k) THEN k ELSE get_summary_metrics(k)
       IN  /\ df' = d
           /\ df_raw' = d
           /\ df_clean' = c
           /\ df_kpi' = IF Raised(k) THEN df_kpi ELSE k
           /\ summary' = IF Raised(s) THEN summary ELSE s
           /\ origin' = [item \in SessionItems |->
                            IF \/ item \in {"df_raw", "df_clean"}
                               \/ item = "df_kpi" /\ ~Raised(k)
                               \/ item = "summary" /\ ~Raised(s)
                            THEN uploaded_file ELSE origin[item]]
           /\ call' = [fn |-> "clean_and_process", file |-> uploaded_file,
                       raised |-> Raised(s)]
    /\ UNCHANGED <<uploaded_file, insights, charts, df_kpi2, callVars>>

\* the same button shown whatever the session holds
GenerateVisualizations_unguarded ==
    /\ charts' = generate_all_charts(df_kpi)
    /\ origin' = [origin EXCEPT !["charts"] = origin["df_kpi"]]
    /\ call' = [fn |-> "generate_all_charts"]
    /\ UNCHANGED <<uploaded_file, df, df_raw, df_clean, df_kpi, summary, insights, df_kpi2, callVars>>

\* app.py lines 476-483
GenerateVisualizations ==
    /\ summary # PyNone
    /\ df_kpi # PyNone
    /\ charts' = generate_all_charts(df_kpi)
    /\ origin' = [origin EXCEPT !["charts"] = origin["df_kpi"]]
    /\ call' = [fn |-> "generate_all_charts"]
    /\ UNCHANGED <<uploaded_file, df, df_raw, df_clean, df_kpi, summary, insights, df_kpi2, callVars>>

\* what the provider does in a session: it fails, or answers with a document
SessionOutcomes ==
    { [kind |-> "raise", at |-> "network"], [kind |-> "text", text |-> <<"{4 keys}">>] }

\* app.py lines 509-526: the provider chosen in the sidebar, with a key or not
GenerateInsights ==
    /\ summary # PyNone
    /\ \/ /\ insights' = generate_fallback_insights(summary)
          /\ call' = [fn |-> "generate_fallback_insights"]
       \/ \E o \in SessionOutcomes :
             /\ insights' = generate_insights_openai(summary, o)
             /\ call' = [fn |-> "generate_insights_openai", outcome |-> o]
       \/ \E o \in SessionOutcomes :
             /\ insights' = generate_insights_gemini(summary, o)
             /\ call' = [fn |-> "generate_insights_gemini", outcome |-> o]
    /\ origin' = [origin EXCEPT !["insights"] = origin["summary"]]
    /\ UNCHANGED <<uploaded_file, df, df_raw, df_clean, df_kpi, summary, charts, df_kpi2, callVars>>

\* Python truth value of a session item: None, an empty mapping and an empty
\* list are false
Truthy(v) ==
    /\ v # PyNone
    /\ DOMAIN v # {}
    /\ ~("len" \in DOMAIN v /\ v.len = 0)
    /\ ~("items" \in DOMAIN v /\ v.items = <<>>)

\* app.py line 608: if st.session_state.summary and st.session_state.insights
ReportEnabled == Truthy(summary) /\ Truthy(insights)

\* app.py lines 620-652: the charts are generated if there are none, then the
\* report is written from the session's summary, insights and charts; the
\* call records which file each of the three was computed from
GenerateReport ==
    /\ ReportEnabled
    /\ LET made == charts = PyNone
           from == IF made THEN origin["df_kpi"] ELSE origin["charts"]
       IN  /\ charts' = IF made THEN generate_all_charts(df_kpi) ELSE charts
           /\ origin' = [origin EXCEPT !["charts"] = from]
           /\ call' = [fn |-> "create_report",
                       summary_from |-> origin["summary"],
                       insights_from |-> origin["insights"],
                       charts_from |-> from]
    /\ UNCHANGED <<uploaded_file, df, df_raw, df_clean, df_kpi, summary, insights, df_kpi2, callVars>>

NextSession ==
    \/ UploadFile \/ RemoveFile \/ CleanAndProcess \/ GenerateVisualizations
    \/ GenerateInsights \/ GenerateReport

SpecSession == InitSession /\ [][NextSession]_vars

-----------------------------------------------------------------------------
(* Properties of the application session (checked under SpecSession) *)

(* C19: the derived data is discarded when a new file is uploaded: in every
   reachable session state, if df_clean, df_kpi or summary is set then it was
   derived from the file currently held in df_raw, never from a previously
   uploaded file.                                                            *)
C19_DerivedFromCurrentFile ==
    /\ df_clean # PyNone => origin["df_clean"] = origin["df_raw"]
    /\ df_kpi # PyNone => origin["df_kpi"] = origin["df_raw"]
    /\ summary # PyNone => origin["summary"] = origin["df_raw"]

(* C20: when the uploaded file cannot be read as a table, load_csv returns
   None instead of raising, the run leaves the session's df_raw, df_clean,
   df_kpi and summary unchanged, and nothing in the session is ever computed
   from that file.                                                           *)
C20_UnreadableUpload ==
    [][uploaded_file' \in UnreadableFiles =>
          /\ df' = PyNone
          /\ UNCHANGED <<df_raw, df_clean, df_kpi, summary>>
          /\ \A item \in SessionItems : origin'[item] \notin UnreadableFiles]_vars

\* an unreadable file was uploaded after another file had been processed
C20_Witness ==
    /\ uploaded_file \in UnreadableFiles
    /\ call = [fn |-> "load_csv", file |-> uploaded_file]
    /\ df = PyNone
    /\ df_raw = FileTable(File("campaign_a.csv"))
    /\ summary # PyNone

-----------------------------------------------------------------------------
(* Further properties of the insight generators (checked under SpecInsights) *)

\* a four-key JSON object between an opening fence (with or without the
\* json tag) and a closing fence
FencedFourKeyTexts ==
    { FenceJson \o <<"\n", "{4 keys}", "\n">> \o Fence,
      Fence \o <<"\n", "{4 keys}", "\n">> \o Fence }

(* C21: with either provider, a response whose text is a valid four-key JSON
   object wrapped in a code fence has the fence stripped before parsing, so
   the parsed object is returned rather than the rule-based fallback.        *)
C21_FenceStripped ==
    (ProviderCalled /\ call.outcome.kind = "text" /\ call.outcome.text \in FencedFourKeyTexts)
        => insights = LlmInsights

\* the metric-specific recommendations that fire, in the order CTR, CPC,
\* ROAS, conversion rate
FiredRecommendations ==
    (IF Has(summary, "overall_CTR") /\ RatLt(summary["overall_CTR"], Num(1))
     THEN <<CtrRecommendation>> ELSE <<>>)
    \o (IF Has(summary, "overall_CPC") /\ RatGt(summary["overall_CPC"], Num(2))
        THEN <<CpcRecommendation>> ELSE <<>>)
    \o (IF Has(summary, "overall_ROAS") /\ RatLt(summary["overall_ROAS"], Num(2))
        THEN <<RoasRecommendation>> ELSE <<>>)
    \o (IF Has(summary, "overall_Conversion_Rate")
           /\ RatLt(summary["overall_Conversion_Rate"], Num(2))
        THEN <<CvrRecommendation>> ELSE <<>>)

Min(a, b) == IF a < b THEN a ELSE b

(* C22: every metric-specific recommendation that fires survives the
   truncation: the recommendations are the k fired ones (0 <= k <= 4) in the
   order CTR, CPC, ROAS, conversion rate, followed by the first
   min(4, 5 - k) generic recommendations in their fixed order.               *)
C22_MetricRecommendationsFirst ==
    FallbackCalled =>
        LET k == Len(FiredRecommendations)
        IN  insights.recommendations =
                FiredRecommendations \o SubSeq(GenericRecommendations, 1, Min(4, 5 - k))

\* all four fire: they are kept, and one generic recommendation follows
C22_Witness ==
    /\ FallbackCalled
    /\ Len(FiredRecommendations) = 4
    /\ insights.recommendations =
          <<CtrRecommendation, CpcRecommendation, RoasRecommendation, CvrRecommendation,
            GenericRecommendations[1]>>

(* C23: for every summary, generate_fallback_insights returns exactly 5
   recommendations, also when no metric-specific recommendation fires.       *)
C23_ExactlyFive ==
    FallbackCalled => Len(insights.recommendations) = 5

(* C23, amended: generate_fallback_insights returns exactly 5
   recommendations when at least one metric-specific recommendation fires,
   and exactly the 4 generic ones when none fires.                           *)
C23_FiveOrFourGeneric ==
    FallbackCalled =>
        IF Len(FiredRecommendations) = 0
        THEN insights.recommendations = GenericRecommendations
        ELSE Len(insights.recommendations) = 5

\* every present metric is on its healthy side: only the generic four
C23_Witness ==
    /\ FallbackCalled
    /\ DOMAIN summary = InsightKeys
    /\ Len(FiredRecommendations) = 0
    /\ Len(insights.recommendations) = 4

-----------------------------------------------------------------------------
(* The frame of calculate_kpis (checked under SpecPipeline) *)

DerivedNames == {q.out : q \in Ratios}

(* C24: calculate_kpis changes nothing but column names and derived columns:
   the output has the rows of the input in the same order, and every column
   other than the five derived ones holds in every row the value of the
   corresponding input column.                                               *)
C24_FrameOfCalculateKpis ==
    KpisComputed =>
        /\ df_kpi.nrows = df.nrows
        /\ Len(df_kpi.cols) >= Len(df.cols)
        /\ \A i \in DOMAIN df_kpi.cols :
              /\ Len(df_kpi.cols[i].vals) = df.nrows
              /\ df_kpi.cols[i].name \notin DerivedNames =>
                    /\ i <= Len(df.cols)
                    /\ df_kpi.cols[i].vals = df.cols[i].vals
                    /\ df_kpi.cols[i].dtype = df.cols[i].dtype
        /\ \A i \in DOMAIN df.cols :
              df.cols[i].name \notin DerivedNames => df_kpi.cols[i].name \notin DerivedNames

\* two different rows, renamed columns and a derived column
C24_Witness ==
    /\ df = VolumeTable
    /\ KpisComputed
    /\ Names(df_kpi) = {"impressions", "clicks", "CTR"}
    /\ df_kpi.cols[1].vals = Nums(<<100, 300>>)
    /\ df_kpi.cols[2].vals = Nums(<<10, 15>>)

-----------------------------------------------------------------------------
(* Further properties of clean_data, alone and before calculate_kpis
   (checked under SpecClean) *)

\* the column holds one of the five base metrics
HoldsBaseMetric(name) == RenameTo(name) \in BaseMetricSet

(* C26: after clean_data, every value in a column holding one of the five
   base metrics is non-negative, also for raw tables whose cells parse to
   negative numbers.                                                         *)
C26_NonNegativeAfterClean ==
    df_clean # NoValue =>
        \A i \in DOMAIN df_clean.cols :
            (HoldsBaseMetric(df_clean.cols[i].name) /\ df_clean.cols[i].dtype = "num") =>
                \A r \in 1..df_clean.nrows : ~RatLt(df_clean.cols[i].vals[r], Num(0))

(* C30: every column that calculate_kpis renames to a canonical metric name
   is also matched by clean_data's keywords, so that its textual values are
   numbers before the KPI comparisons and divisions run; this holds for every
   column name, singular forms such as "Click" included.                     *)
C30_RenamedColumnsAreCleaned ==
    /\ df_clean # NoValue =>
          \A i \in DOMAIN df_raw.cols :
              HoldsBaseMetric(df_raw.cols[i].name) =>
                  /\ IsNumericCandidate(df_raw.cols[i].name)
                  /\ df_clean.cols[i].dtype # "obj"
    /\ df_kpi # NoValue => df_kpi # [raised |-> "TypeError"]

-----------------------------------------------------------------------------
(* Ordering and reports in the application session (checked under
   SpecSession) *)

IsSet(v) == v # PyNone

\* the session items are set in pipeline order
SessionOrdered ==
    /\ IsSet(summary) => IsSet(df_kpi) /\ IsSet(df_clean) /\ IsSet(df_raw)
    /\ IsSet(insights) => IsSet(summary)
    /\ IsSet(charts) => IsSet(df_kpi)

(* C27: the shell never invokes the core out of order: in every reachable
   session state summary set implies df_kpi, df_clean and df_raw set,
   insights set implies summary set, charts set implies df_kpi set; and
   generate-insights, generate-charts and generate-report only run in states
   where the inputs they read (summary and df_kpi; df_kpi; summary, insights
   and df_kpi) are set.                                                      *)
C27_CoreInvokedInOrder ==
    /\ []SessionOrdered
    /\ [][/\ GenerateInsights => IsSet(summary) /\ IsSet(df_kpi)
          /\ GenerateVisualizations => IsSet(df_kpi)
          /\ GenerateReport => IsSet(summary) /\ IsSet(insights) /\ IsSet(df_kpi)]_vars

\* a report was written, with the charts made by the report handler itself
C27_Witness ==
    /\ call.fn = "create_report"
    /\ IsSet(charts) /\ IsSet(insights) /\ IsSet(summary) /\ IsSet(df_kpi)
    /\ origin["charts"] = origin["df_kpi"]

(* C28: every report combines a summary, an insight mapping and a chart set
   derived from the same uploaded dataset: generate-report never pairs the
   summary of the latest processed file with insights or charts computed for
   an earlier file.                                                          *)
C28_ReportFromOneDataset ==
    call.fn = "create_report" =>
        /\ call.insights_from = call.summary_from
        /\ call.charts_from = call.summary_from

(* C29: whenever all four checklist steps of the report tab are complete
   (df_raw, df_clean, summary and insights are all not None), report
   generation is enabled, also for a processed dataset with none of the five
   base metric columns, whose summary is the empty mapping.                  *)
C29_ChecklistCompleteEnablesReport ==
    (IsSet(df_raw) /\ IsSet(df_clean) /\ IsSet(summary) /\ IsSet(insights)) => ReportEnabled

-----------------------------------------------------------------------------
(* Sequences of core calls on shared objects.  The heap is the sequence of
   objects created so far; an object is referred to by its position.  A call
   receives a reference, the statements of the function write to the object
   their local variable refers to, and the caller keeps every reference it
   ever had.                                                                 *)

\* the most core calls in one sequence
MaxCalls == 3

Object(kind, value) == [kind |-> kind, value |-> value]

\* the same without copying: the local variable refers to the argument
CopyOf_alias(h, a) == [heap |-> h, ref |-> a]

\* process.py lines 19 and 64: df.copy(), a new object with the same value
CopyOf(h, a) == [heap |-> Append(h, h[a]), ref |-> Len(h) + 1]

\* a dict literal (process.py line 137, insights.py lines 146-151): a new object
New(h, kind) == [heap |-> Append(h, Object(kind, <<>>)), ref |-> Len(h) + 1]

\* the statements of a function writing to the object a local refers to
Store(h, ref, v) == [h EXCEPT ![ref].value = v]

\* an exception propagates: no caller holds the function's local object
Drop(h, ref) == [h EXCEPT ![ref].kind = "unreachable"]

Tables(h) == {a \in DOMAIN h : h[a].kind = "table"}

\* one call: the heap it leaves, and the entry of the call log
Returned(fn, a, h, result) ==
    /\ heap' = h
    /\ calls' = Append(calls, [fn |-> fn, arg |-> a, before |-> heap[a].value,
                               after |-> h[a].value, result |-> result])

InitCalls ==
    /\ \E f \in Files \ UnreadableFiles : heap = <<Object("table", FileTable(f))>>
    /\ calls = <<>>
    /\ df = NoValue
    /\ df_kpi = NoValue
    /\ df_kpi2 = NoValue
    /\ summary = NoValue
    /\ insights = NoValue
    /\ call = NotCalled
    /\ NoSession

\* everything but the heap and the call log
nonCallVars ==
    <<df, df_kpi, summary, insights, call, df_kpi2, df_raw, df_clean, charts,
      uploaded_file, origin>>

\* process.py lines 19-51: df_clean = df.copy(), then every statement
\* assigns into df_clean
CallCleanData ==
    /\ Len(calls) < MaxCalls
    /\ \E a \in Tables(heap) :
          LET c == CopyOf(heap, a)
              h == Store(c.heap, c.ref, clean_data(c.heap[c.ref].value))
          IN  Returned("clean_data", a, h, h[c.ref].value)
    /\ UNCHANGED nonCallVars

\* process.py lines 64-124: df_kpi = df.copy(), rename, then every block
\* assigns into df_kpi; an exception leaves the renamed copy behind
CallCalculateKpis ==
    /\ Len(calls) < MaxCalls
    /\ \E a \in Tables(heap) :
          LET c == CopyOf(heap, a)
              k == calculate_kpis(c.heap[c.ref].value)
              h == IF Raised(k)
                   THEN Drop(Store(c.heap, c.ref, Rename(c.heap[c.ref].value)), c.ref)
                   ELSE Store(c.heap, c.ref, k)
          IN  Returned("calculate_kpis", a, h, k)
    /\ UNCHANGED nonCallVars

\* process.py lines 137-178: summary = {}, filled from the table
CallGetSummaryMetrics ==
    /\ Len(calls) < MaxCalls
    /\ \E a \in Tables(heap) :
          LET c == New(heap, "summary")
              v == get_summary_metrics(heap[a].value)
              h == IF Raised(v) THEN Drop(c.heap, c.ref) ELSE Store(c.heap, c.ref, v)
          IN  Returned("get_summary_metrics", a, h, v)
    /\ UNCHANGED nonCallVars

\* insights.py lines 144-201: insights = {...}, filled from the summary
CallFallbackInsights ==
    /\ Len(calls) < MaxCalls
    /\ \E a \in {x \in DOMAIN heap : heap[x].kind = "summary"} :
          LET c == New(heap, "insights")
              h == Store(c.heap, c.ref, generate_fallback_insights(heap[a].value))
          IN  Returned("generate_fallback_insights", a, h, h[c.ref].value)
    /\ UNCHANGED nonCallVars

CallerEdit == Msg("edited by the caller", <<>>)

\* the caller appends to the recommendations of a mapping it was returned
ModifyInsights ==
    /\ \E r \in DOMAIN heap :
          /\ heap[r].kind = "insights"
          /\ "recommendations" \in DOMAIN heap[r].value
          /\ CountMsg(heap[r].value.recommendations, CallerEdit) = 0
          /\ heap' = Store(heap, r, [heap[r].value EXCEPT
                                        !.recommendations = Append(@, CallerEdit)])
    /\ UNCHANGED calls
    /\ UNCHANGED nonCallVars

NextCalls ==
    \/ CallCleanData \/ CallCalculateKpis \/ CallGetSummaryMetrics
    \/ CallFallbackInsights \/ ModifyInsights

SpecCalls == InitCalls /\ [][NextCalls]_vars

(* C25: for any sequence of calls to clean_data, calculate_kpis,
   get_summary_metrics and generate_fallback_insights, each call leaves its
   argument unchanged and its result depends only on that argument: two
   calls with equal arguments return equal results whatever happened in
   between, and modifying a returned insight mapping does not change the
   result of a later call.                                                   *)
C25_CallsArePure ==
    /\ \A i \in DOMAIN calls : calls[i].after = calls[i].before
    /\ \A i, j \in DOMAIN calls :
          (calls[i].fn = calls[j].fn /\ calls[i].before = calls[j].before)
              => calls[i].result = calls[j].result
    /\ \A i \in DOMAIN calls :
          calls[i].fn = "generate_fallback_insights" =>
              CountMsg(calls[i].result.recommendations, CallerEdit) = 0

\* the fallback insights were computed, edited by the caller, and computed
\* again from the same summary
C25_Witness ==
    /\ Len(calls) = 3
    /\ calls[2].fn = "generate_fallback_insights"
    /\ calls[3].fn = "generate_fallback_insights"
    /\ calls[2].arg = calls[3].arg
    /\ \E r \in DOMAIN heap :
          /\ heap[r].kind = "insights"
          /\ CountMsg(heap[r].value.recommendations, CallerEdit) = 1
          /\ heap[r].value # calls[3].result

====
